---- MODULE Spec2Model ----
(***************************************************************************)
(* BinaryMatrix (src/src/BinaryMatrix.ts): an immutable N-dimensional      *)
(* boolean matrix over a packed bit buffer.                                *)
(*                                                                         *)
(* A buffer is a sequence of bits indexed by bit offset + 1; its length is *)
(* a whole number of bytes.  Buffers live in a heap and matrices refer to  *)
(* them by identity, so that a write through one matrix to a buffer that   *)
(* another matrix holds is visible in the model.                           *)
(***************************************************************************)
EXTENDS Integers, Sequences, FiniteSets, TLC

VARIABLES
    heap,   \* the ArrayBuffers allocated so far: heap[b] is a sequence of bits
    objs,   \* the BinaryMatrix objects constructed so far: [size, buffer]
    snap,   \* history: size and buffer content of objs[k] when it was constructed
    last,   \* the last call: its operation, arguments and outcome
    ops     \* number of constructing calls made so far

vars == <<heap, objs, snap, last, ops>>

(***************************************************************************)
(* Bounds of the model.                                                    *)
(***************************************************************************)
\* Largest extent handed to fromSize, longest short row handed to fromString,
\* and largest index component handed to get, set and paste.
MaxExtent == 2
\* Most rows handed to fromString.
MaxRows == 2
\* Most constructing calls (factories, decode, set, paste) in one behaviour.
MaxOps == 2
\* Most constructing calls in one behaviour of the sharing specification.
MaxSharedOps == 3
\* Call-stack frames of set available before the engine raises RangeError.
MaxCallDepth == 3
\* Largest declared extent and largest run length of a hand-made decode input.
MaxRun == 3

(***************************************************************************)
(* Program constant: the significand width of the IEEE-754 double in which *)
(* `2 ** bitLength - 1` is computed.                                       *)
(***************************************************************************)
Float64Mantissa == 53

\* The one element of a singleton set.  { e(x) : x \in {v} } evaluates v once.
Only(S) == CHOOSE x \in S : TRUE

\* The sequence f with every element evaluated.
Concrete(f) == SubSeq(f, 1, Len(f))

Min(a, b) == IF a < b THEN a ELSE b
Max(a, b) == IF a < b THEN b ELSE a

RECURSIVE SeqSum(_)
SeqSum(s) == IF s = <<>> THEN 0 ELSE s[1] + SeqSum(Tail(s))

(***************************************************************************)
(* AddressingEngine and ExpansionPlanner.                                  *)
(***************************************************************************)
\* Product of size[1..d].
RECURSIVE ProductTo(_, _)
ProductTo(size, d) == IF d = 0 THEN 1 ELSE size[d] * ProductTo(size, d - 1)

\* totalBits(Size) = product of Size[d].
sizeToBitLength(size) == ProductTo(size, Len(size))

\* linearOffset: sum over d of Indices[d] * product of Size[k], k < d.
\* No range check: in range is a precondition.
RECURSIVE OffsetTo(_, _, _)
OffsetTo(size, indices, d) ==
    IF d = 0 THEN 0
    ELSE indices[d] * ProductTo(size, d - 1) + OffsetTo(size, indices, d - 1)

indicesToOffset(size, indices) == OffsetTo(size, indices, Len(size))

\* indicesFromOffset: successive modulo / divide by each Size[d] in dimension
\* order.  A zero extent yields NaN in the program; it is 0 here.
offsetToIndices(size, offset) ==
    [d \in 1..Len(size) |->
        IF size[d] = 0 \/ ProductTo(size, d - 1) = 0 THEN 0
        ELSE (offset \div ProductTo(size, d - 1)) % size[d]]

\* Whether indices lie within size on every axis.
InRange(size, indices) ==
    \A d \in 1..Len(size) : indices[d] >= 0 /\ indices[d] < size[d]

\* checkExpansion: none when every component is in range, otherwise the
\* bounding box (size) and the origin shift (pos).
checkExpansion(size, indices) ==
    IF InRange(size, indices)
    THEN [required |-> FALSE, size |-> size, pos |-> [d \in 1..Len(size) |-> 0]]
    ELSE [required |-> TRUE,
          size |-> [d \in 1..Len(size) |->
                      Max(size[d] - 1, indices[d]) - Min(0, indices[d]) + 1],
          pos  |-> [d \in 1..Len(size) |-> 0 - Min(0, indices[d])]]

(***************************************************************************)
(* The bit-buffer primitive (@hookun/bitbybit).                            *)
(***************************************************************************)
\* A zero-filled buffer of ceil(bitLength / 8) bytes.
createBufferFromBitLength(bitLength) ==
    [k \in 1..(8 * ((bitLength + 7) \div 8)) |-> FALSE]

\* A read outside the typed array yields undefined, whose bits are 0.
getBit(buffer, bitOffset) ==
    IF bitOffset >= 0 /\ bitOffset < Len(buffer) THEN buffer[bitOffset + 1] ELSE FALSE

\* A write outside the typed array is dropped.
setBit(buffer, bitOffset, state) ==
    IF bitOffset >= 0 /\ bitOffset < Len(buffer)
    THEN [buffer EXCEPT ![bitOffset + 1] = state]
    ELSE buffer

\* The elements of a finite set of integers, increasing.
SortedSeq(S) ==
    [i \in 1..Cardinality(S) |->
        CHOOSE x \in S : Cardinality({y \in S : y < x}) = i - 1]

\* Offsets in [start, end) whose bit equals state, increasing.
listBitHasState(buffer, state, start, end) ==
    SortedSeq({k \in start..(end - 1) : getBit(buffer, k) = state})

\* Alternating run lengths over [start, end), the first one of 0 bits
\* (zero when the first bit is 1): a run starts at start and wherever a bit
\* differs from the one before it.
runLength(buffer, start, end) ==
    IF start >= end THEN <<>>
    ELSE Only({ (IF getBit(buffer, start) THEN <<0>> ELSE <<>>)
                \o [i \in 1..Len(starts) |->
                      (IF i < Len(starts) THEN starts[i + 1] ELSE end) - starts[i]] :
                starts \in { Concrete(SortedSeq(
                    {start} \cup {k \in (start + 1)..(end - 1) :
                                    getBit(buffer, k) # getBit(buffer, k - 1)})) } })

(***************************************************************************)
(* The variable-length integer codec (@hookun/vlq): base-128 groups, most  *)
(* significant first, bit 7 set on every byte but an integer's last.       *)
(***************************************************************************)
RECURSIVE VlqGroups(_)
VlqGroups(n) == IF n < 128 THEN <<n>> ELSE VlqGroups(n \div 128) \o <<n % 128>>

VlqBytes(n) ==
    LET g == VlqGroups(n)
    IN  [k \in 1..Len(g) |-> IF k < Len(g) THEN g[k] + 128 ELSE g[k]]

RECURSIVE vlqEncode(_)
vlqEncode(ints) ==
    IF ints = <<>> THEN <<>> ELSE VlqBytes(ints[1]) \o vlqEncode(Tail(ints))

RECURSIVE VlqDecodeFrom(_, _, _)
VlqDecodeFrom(bytes, k, acc) ==
    IF k > Len(bytes) THEN <<>>
    ELSE IF bytes[k] >= 128
         THEN VlqDecodeFrom(bytes, k + 1, acc * 128 + (bytes[k] - 128))
         ELSE <<acc * 128 + bytes[k]>> \o VlqDecodeFrom(bytes, k + 1, 0)

vlqDecode(bytes) == VlqDecodeFrom(bytes, 1, 0)

(***************************************************************************)
(* The store: s = [heap, objs, snap].                                      *)
(***************************************************************************)
\* A new ArrayBuffer holding bits; its identity is Len of the new heap.
Alloc(s, bits) ==
    Only({ [s EXCEPT !.heap = Append(s.heap, buffer)] : buffer \in {Concrete(bits)} })

\* ArrayBuffer.prototype.slice(0): a new buffer with the same content.
Slice(s, b) == Alloc(s, s.heap[b])

\* setBit on the buffer with identity b.
WriteBit(s, b, bitOffset, state) ==
    [s EXCEPT !.heap[b] = setBit(s.heap[b], bitOffset, state)]

\* new BinaryMatrix(size, buffer): the object's identity is Len of the new
\* objs.  The size is copied (size.slice()), the buffer is held by reference.
Construct(s, size, b) ==
    [s EXCEPT !.objs = Append(@, [size |-> size, buffer |-> b]),
              !.snap = Append(@, [size |-> size, bits |-> s.heap[b],
                                  public |-> FALSE])]

\* new BinaryMatrix(size): the buffer defaults to a zero-filled one.
ConstructDefault(s, size) ==
    LET s1 == Alloc(s, createBufferFromBitLength(sizeToBitLength(size)))
    IN  Construct(s1, size, Len(s1.heap))

\* The object a call hands back to its caller becomes a value the client holds.
Publish(s, r) == [s EXCEPT !.snap[r].public = TRUE]

SizeOf(s, this) == s.objs[this].size
BufferOf(s, this) == s.heap[s.objs[this].buffer]

(***************************************************************************)
(* BinaryMatrix.                                                           *)
(***************************************************************************)
bitLength(s, this) == sizeToBitLength(SizeOf(s, this))

get(s, this, indices) ==
    getBit(BufferOf(s, this), indicesToOffset(SizeOf(s, this), indices))

\* isSame: identical Size and identical bit at every Indices.
isSameAs(s, this, anotherMatrix) ==
    /\ SizeOf(s, this) = SizeOf(s, anotherMatrix)
    /\ \A k \in 0..(bitLength(s, this) - 1) :
          getBit(BufferOf(s, this), k) = getBit(BufferOf(s, anotherMatrix), k)

\* A listBit that never breaks: every stored bit, padding included.
listBitNoBreak(s, this) ==
    [k \in 1..Len(BufferOf(s, this)) |->
        <<BufferOf(s, this)[k], offsetToIndices(SizeOf(s, this), k - 1)>>]

\* listBit: walks the stored bits, yields each with its indices, and breaks
\* after a yield once bitLength <= bitOffset.
listBit(s, this) ==
    LET buffer == BufferOf(s, this)
        count  == IF Len(buffer) = 0 THEN 0
                  ELSE Min(Len(buffer), Max(bitLength(s, this), 1))
    IN  [k \in 1..count |-> <<buffer[k], offsetToIndices(SizeOf(s, this), k - 1)>>]

list(s, this, state) ==
    LET offsets == listBitHasState(BufferOf(s, this), state, 0, bitLength(s, this))
    IN  [k \in 1..Len(offsets) |-> offsetToIndices(SizeOf(s, this), offsets[k])]

\* The buffer after the loop of paste: entry k of patch.listBit() writes its
\* bit at the offset of its indices + pos (a write of the bit already there is
\* skipped), so each bit ends as its last entry left it.
PasteInto(buffer, entries, size, pos) ==
    Only({ Concrete([o \in 1..Len(buffer) |->
                LET writers == {k \in 1..Len(offsets) : offsets[k] = o - 1}
                IN  IF writers = {} THEN buffer[o]
                    ELSE entries[CHOOSE k \in writers : \A j \in writers : j <= k][1]]) :
           offsets \in { Concrete([k \in 1..Len(entries) |->
                            indicesToOffset(size,
                                [d \in 1..Len(entries[k][2]) |->
                                    entries[k][2][d] + pos[d]])]) } })

\* paste: clone this.buffer, write every cell of patch at indices + pos,
\* construct on the clone.
paste(s, this, patch, pos) ==
    Only({ Construct([s1 EXCEPT !.heap[Len(s1.heap)] =
                          PasteInto(s1.heap[Len(s1.heap)], entries,
                                    SizeOf(s, this), pos)],
                     SizeOf(s, this), Len(s1.heap)) :
           s1 \in {Slice(s, s.objs[this].buffer)},
           entries \in {Concrete(listBit(s, patch))} })

\* A setInternalBit that writes this.buffer itself instead of a clone.
setInternalBitInPlace(s, this, indices, state) ==
    LET b  == s.objs[this].buffer
        s2 == WriteBit(s, b, indicesToOffset(SizeOf(s, this), indices), state)
        s3 == Construct(s2, SizeOf(s, this), b)
    IN  [s |-> s3, r |-> Len(s3.objs), err |-> "", n |-> 0]

\* setInternalBit: clone, write one bit, construct on the clone.
setInternalBit(s, this, indices, state) ==
    LET s1 == Slice(s, s.objs[this].buffer)
        b  == Len(s1.heap)
        s2 == WriteBit(s1, b, indicesToOffset(SizeOf(s, this), indices), state)
        s3 == Construct(s2, SizeOf(s, this), b)
    IN  [s |-> s3, r |-> Len(s3.objs), err |-> "", n |-> 0]

\* set and setExternalBit call each other.  depth is the number of set frames
\* on the stack; n counts the expansions checkExpansion reported.
RECURSIVE set(_, _, _, _, _)
RECURSIVE setExternalBit(_, _, _, _, _, _)

\* new BinaryMatrix(size).paste(this, pos).set(indices, state): the indices
\* handed on are the ones received.
setExternalBit(s, this, expansion, indices, state, depth) ==
    Only({ [res EXCEPT !.n = res.n + 1] :
           res \in { set(s2, Len(s2.objs), indices, state, depth + 1) :
                     s2 \in { paste(s1, Len(s1.objs), this, expansion.pos) :
                              s1 \in {ConstructDefault(s, expansion.size)} } } })

set(s, this, indices, state, depth) ==
    IF depth > MaxCallDepth
    THEN [s |-> s, r |-> 0, err |-> "RangeError", n |-> 0]
    ELSE LET expansion == checkExpansion(SizeOf(s, this), indices)
         IN  IF expansion.required
             THEN setExternalBit(s, this, expansion, indices, state, depth)
             ELSE setInternalBit(s, this, indices, state)

\* fromDimension: new BinaryMatrix(new Array(dimension).fill(0)).
fromDimension(s, dimension) == ConstructDefault(s, [d \in 1..dimension |-> 0])

fromSize(s, size) == ConstructDefault(s, size)

\* row[columnIndex] beyond the end of a row is undefined, which is not '0'.
CharAt(row, columnIndex) ==
    IF columnIndex < Len(row) THEN row[columnIndex + 1] ELSE "undefined"

\* fromString: Size = [rows[0].length, rows.length]; a bit is set wherever
\* row[columnIndex] !== '0'.  The lengths of the other rows are not read.
fromString(s, rows) ==
    LET rowCount    == Len(rows)
        columnCount == Len(rows[1])
        size        == <<columnCount, rowCount>>
        zero        == createBufferFromBitLength(sizeToBitLength(size))
        buffer      == [k \in 1..Len(zero) |->
                          /\ k <= columnCount * rowCount
                          /\ CharAt(rows[((k - 1) \div columnCount) + 1],
                                    (k - 1) % columnCount) # "0"]
        s1          == Alloc(s, buffer)
    IN  Construct(s1, size, Len(s1.heap))

\* encode: vlq of [D, ...Size, ...run lengths of the first bitLength bits].
encode(s, this) ==
    vlqEncode(<<Len(SizeOf(s, this))>> \o SizeOf(s, this)
              \o runLength(BufferOf(s, this), 0, bitLength(s, this)))

\* The low bitLength bits of the double `2 ** bitLength - 1`: all set while
\* the value is exact; from 54 bits on it rounds to 2 ** bitLength, whose low
\* bitLength bits are clear.
OnesRunBit(runBits) == runBits <= Float64Mantissa

\* The loop of decode from the pos-th integer on.  An exhausted decoder yields
\* undefined: nothing is written, bitOffset becomes NaN and the loop ends.
\* BitWriter appends at bitOffset; bits past the end of the buffer are dropped.
RECURSIVE DecodeRuns(_, _, _, _, _, _)
DecodeRuns(ints, pos, bitOffset, state, buffer, totalBitLength) ==
    IF ~(bitOffset < totalBitLength) THEN buffer
    ELSE IF pos > Len(ints) THEN buffer
    ELSE LET runBits == ints[pos]
             bit     == IF state THEN OnesRunBit(runBits) ELSE FALSE
             written == [k \in 1..Len(buffer) |->
                           IF k > bitOffset /\ k <= bitOffset + runBits
                           THEN bit ELSE buffer[k]]
         IN  DecodeRuns(ints, pos + 1, bitOffset + runBits, ~state, written,
                        totalBitLength)

\* decode: D, Size[0..D-1], then runs until bitOffset reaches the total.
decode(s, encoded) ==
    LET ints           == vlqDecode(encoded)
        dimensionCount == ints[1]
        size           == SubSeq(ints, 2, dimensionCount + 1)
        totalBitLength == sizeToBitLength(size)
        buffer         == DecodeRuns(ints, dimensionCount + 2, 0, FALSE,
                                     createBufferFromBitLength(totalBitLength),
                                     totalBitLength)
        s1             == Alloc(s, buffer)
    IN  Construct(s1, size, Len(s1.heap))

(***************************************************************************)
(* The calls a client makes.                                               *)
(***************************************************************************)
Store == [heap |-> heap, objs |-> objs, snap |-> snap]

\* The matrices the client holds: the ones calls have returned.
Handles == {k \in 1..Len(objs) : snap[k].public}

\* The dimension counts handed to fromDimension and fromSize.
Dimensions == {1, 2}
Sizes(D) == [1..D -> 0..MaxExtent]
\* Indices for a matrix of the given size: each component from one below to
\* one past its valid range.
IndicesFor(size) == {i \in [1..Len(size) -> (0 - 1)..MaxExtent + MaxSharedOps] :
                        \A d \in 1..Len(size) : i[d] <= size[d]}
\* Positions a patch is pasted at.
Positions(D) == [1..D -> 0..1]

\* Rows over '0' and '1' of up to MaxExtent characters, and rows of ones on
\* both sides of the precision of a double.
ShortRows == UNION {[1..n -> {"0", "1"}] : n \in 0..MaxExtent}
LongRows == {[k \in 1..n |-> "1"] : n \in {Float64Mantissa, Float64Mantissa + 1}}
RowLists(rows) == UNION {[1..r -> rows] : r \in 1..MaxRows}
ShortRowLists == RowLists(ShortRows)
LongRowLists == {<<row>> : row \in LongRows}

\* Hand-made decode inputs: one axis, a declared extent, up to two runs.
RunLists == UNION {[1..r -> 0..MaxRun] : r \in 0..2}
HandMadeInputs == {vlqEncode(<<1, n>> \o runs) : n \in 0..MaxRun, runs \in RunLists}

NoCall ==
    [op |-> "none", recv |-> 0, patch |-> 0, idx |-> <<>>, v |-> FALSE,
     rows |-> <<>>, bytes |-> <<>>, of |-> 0, r |-> 0, err |-> "", n |-> 0,
     out |-> FALSE, cells |-> <<>>, trues |-> <<>>, falses |-> <<>>]

\* A call that returned the newest object of s.
Returns(s, call) ==
    /\ heap' = s.heap
    /\ objs' = s.objs
    /\ snap' = Publish(s, Len(s.objs)).snap
    /\ last' = [call EXCEPT !.r = Len(s.objs)]
    /\ ops' = ops + 1

\* A call that threw: what it allocated is unreachable.
Throws(call, err) ==
    /\ UNCHANGED <<heap, objs, snap>>
    /\ last' = [call EXCEPT !.err = err]
    /\ ops' = ops + 1

\* A call that constructs nothing.
Observes(call) ==
    /\ UNCHANGED <<heap, objs, snap, ops>>
    /\ last' = call

\* Each constructing call is given the number of such calls its specification
\* allows in one behaviour.
FromDimensionWithin(budget) ==
    /\ ops < budget
    /\ \E D \in Dimensions :
       \E s \in {fromDimension(Store, D)} :
          Returns(s, [NoCall EXCEPT !.op = "fromDimension", !.n = D])

FromSizeOf(sizes, budget) ==
    /\ ops < budget
    /\ \E size \in sizes :
       \E s \in {fromSize(Store, size)} :
          Returns(s, [NoCall EXCEPT !.op = "fromSize", !.idx = size])

FromStringOf(rowLists) ==
    /\ ops < MaxOps
    /\ \E rows \in rowLists :
       \E s \in {fromString(Store, rows)} :
          Returns(s, [NoCall EXCEPT !.op = "fromString", !.rows = rows])

SetWithin(budget) ==
    /\ ops < budget
    /\ \E this \in Handles : \E indices \in IndicesFor(objs[this].size) :
       \E state \in BOOLEAN :
       \E res \in {set(Store, this, indices, state, 1)} :
          LET call == [NoCall EXCEPT !.op = "set", !.recv = this, !.idx = indices,
                                     !.v = state, !.n = res.n]
          IN  IF res.err # "" THEN Throws(call, res.err) ELSE Returns(res.s, call)

PasteWithin(budget) ==
    /\ ops < budget
    /\ \E this \in Handles : \E patch \in Handles :
          /\ Len(objs[patch].size) = Len(objs[this].size)
          /\ \E pos \in Positions(Len(objs[this].size)) :
             \E s \in {paste(Store, this, patch, pos)} :
                Returns(s, [NoCall EXCEPT !.op = "paste", !.recv = this,
                                          !.patch = patch, !.idx = pos])

FromDimension == FromDimensionWithin(MaxOps)
FromSize == FromSizeOf(UNION {Sizes(D) : D \in Dimensions}, MaxOps)
Set == SetWithin(MaxOps)
Paste == PasteWithin(MaxOps)

\* The same calls in longer behaviours, on matrices that start with one axis
\* or with no cell.
FromDimensionShared == FromDimensionWithin(MaxSharedOps)
FromLine == FromSizeOf(Sizes(1), MaxSharedOps)
SetShared == SetWithin(MaxSharedOps)
PasteShared == PasteWithin(MaxSharedOps)

Get ==
    \E this \in Handles : \E indices \in IndicesFor(objs[this].size) :
        Observes([NoCall EXCEPT !.op = "get", !.recv = this, !.idx = indices,
                                !.out = get(Store, this, indices)])

\* list(true), list(false) and listBit(), each run to its end.
List ==
    \E this \in Handles :
        Observes([NoCall EXCEPT !.op = "list", !.recv = this,
                                !.cells = listBit(Store, this),
                                !.trues = list(Store, this, TRUE),
                                !.falses = list(Store, this, FALSE)])

Encode ==
    \E this \in Handles :
        Observes([NoCall EXCEPT !.op = "encode", !.recv = this,
                                !.bytes = encode(Store, this)])

\* decode of the bytes the last encode returned, or of a hand-made input.
Decode ==
    /\ ops < MaxOps
    /\ \/ /\ last.op = "encode"
          /\ \E s \in {decode(Store, last.bytes)} :
                Returns(s, [NoCall EXCEPT !.op = "decode", !.bytes = last.bytes,
                                          !.of = last.recv])
       \/ \E encoded \in HandMadeInputs : \E s \in {decode(Store, encoded)} :
             Returns(s, [NoCall EXCEPT !.op = "decode", !.bytes = encoded])

Init ==
    /\ heap = <<>>
    /\ objs = <<>>
    /\ snap = <<>>
    /\ last = NoCall
    /\ ops = 0

\* fromString on short rows, and on rows that may be long.
FromString == FromStringOf(ShortRowLists)
FromLongString == FromStringOf(ShortRowLists \cup LongRowLists)

\* Construction and mutation.
Next == FromDimension \/ FromSize \/ Set \/ Paste

Spec == Init /\ [][Next]_vars

\* Construction and mutation of values that share history.
NextShare == FromDimensionShared \/ FromLine \/ SetShared \/ PasteShared

SpecShare == Init /\ [][NextShare]_vars

\* Construction, mutation and iteration.
NextList == FromDimension \/ FromSize \/ Set \/ Paste \/ List

SpecList == Init /\ [][NextList]_vars

\* Construction, mutation and reads.
NextRead == FromSize \/ FromString \/ Set \/ Get

SpecRead == Init /\ [][NextRead]_vars

\* Construction and the wire format.
NextCodec == FromLongString \/ Set \/ Encode \/ Decode

SpecCodec == Init /\ [][NextCodec]_vars

(***************************************************************************)
(* Properties.                                                             *)
(***************************************************************************)
\* The origin shift of a set at indices: -min(0, indices[d]) on every axis.
OriginShift(indices) == [d \in 1..Len(indices) |-> 0 - Min(0, indices[d])]

Translate(indices, shift) == [d \in 1..Len(indices) |-> indices[d] + shift[d]]

\* The in-range indices of a matrix.
Cells(s, this) ==
    {offsetToIndices(SizeOf(s, this), k) : k \in 0..(bitLength(s, this) - 1)}

\* C1: a set at indices outside the current Size returns a matrix M2 in which
\* every cell j of the receiver reads at j + originShift what it read at j, and
\* the requested cell, indices + originShift, reads the value set.
C1_ExpansionPreservesContent ==
    (last.op = "set" /\ ~InRange(SizeOf(Store, last.recv), last.idx)) =>
        /\ last.r # 0
        /\ \A j \in Cells(Store, last.recv) :
              get(Store, last.r, Translate(j, OriginShift(last.idx)))
                  = get(Store, last.recv, j)
        /\ get(Store, last.r, Translate(last.idx, OriginShift(last.idx))) = last.v

\* C4: a set repeated on its own result, with the same indices and value,
\* returns a matrix that is the same as that result: same Size, same bits.
C4_IdempotentSet ==
    last.op = "set" =>
        /\ last.r # 0
        /\ \A again \in {set(Store, last.r, last.idx, last.v, 1)} :
              /\ again.r # 0
              /\ isSameAs(again.s, again.r, last.r)

\* C10: every set returns a matrix, checkExpansion reports an expansion at most
\* once in a call, and after an expansion the Size is the bounding box
\* max(Size[d] - 1, indices[d]) - min(0, indices[d]) + 1.
C10_SetExpandsAtMostOnce ==
    last.op = "set" =>
        /\ last.r # 0
        /\ last.n <= 1
        /\ last.n = 1 =>
              SizeOf(Store, last.r) =
                  [d \in 1..Len(last.idx) |->
                      Max(SizeOf(Store, last.recv)[d] - 1, last.idx[d])
                          - Min(0, last.idx[d]) + 1]

\* C8: fromDimension(D) returns a matrix of D axes, each of extent 1, of one
\* bit, whose cell [0, ..., 0] is in range and reads false.
C8_UnitHyperCube ==
    last.op = "fromDimension" =>
        /\ Len(SizeOf(Store, last.r)) = last.n
        /\ \A d \in 1..last.n : SizeOf(Store, last.r)[d] = 1
        /\ bitLength(Store, last.r) = 1
        /\ InRange(SizeOf(Store, last.r), [d \in 1..last.n |-> 0])
        /\ get(Store, last.r, [d \in 1..last.n |-> 0]) = FALSE

\* C3: every matrix constructed so far has the Size and the buffer content it
\* was constructed with, whatever set and paste calls were made since, on it
\* or with it as the patch or on a matrix made from it.
C3_CopyOnWrite ==
    \A k \in 1..Len(objs) :
        /\ objs[k].size = snap[k].size
        /\ heap[objs[k].buffer] = snap[k].bits

\* A set flipped a cell of a matrix while the client held an earlier matrix of
\* the same Size and other content.
C3_Witness ==
    /\ last.op = "set"
    /\ last.r # 0
    /\ last.n = 0
    /\ get(Store, last.r, last.idx) # get(Store, last.recv, last.idx)
    /\ \E earlier \in Handles :
          /\ earlier < last.recv
          /\ SizeOf(Store, earlier) = SizeOf(Store, last.recv)
          /\ BufferOf(Store, earlier) # BufferOf(Store, last.recv)

\* C9: list(true) and list(false) together yield bitLength indices, and
\* listBit yields bitLength entries, each in range, in strictly increasing
\* offset order, each with the bit get reads at its indices.
C9_Coverage ==
    last.op = "list" =>
        /\ Len(last.trues) + Len(last.falses) = bitLength(Store, last.recv)
        /\ Len(last.cells) = bitLength(Store, last.recv)
        /\ \A k \in 1..Len(last.cells) :
              /\ InRange(SizeOf(Store, last.recv), last.cells[k][2])
              /\ k > 1 =>
                    indicesToOffset(SizeOf(Store, last.recv), last.cells[k][2])
                      > indicesToOffset(SizeOf(Store, last.recv), last.cells[k - 1][2])
              /\ last.cells[k][1] = get(Store, last.recv, last.cells[k][2])

\* A matrix whose buffer is padded past bitLength, holding a set bit, was listed.
C9_Witness ==
    /\ last.op = "list"
    /\ bitLength(Store, last.recv) % 8 # 0
    /\ Len(BufferOf(Store, last.recv)) > bitLength(Store, last.recv)
    /\ Len(last.trues) > 0
    /\ Len(last.falses) > 0

\* C5: a get at indices outside the Size fails with an error.
C5_OutOfRangeReadFails ==
    (last.op = "get" /\ ~InRange(SizeOf(Store, last.recv), last.idx)) =>
        last.err # ""

\* The integers of a decode input: D, Size[0..D-1], then the run lengths.
DeclaredBits(bytes) ==
    sizeToBitLength(SubSeq(vlqDecode(bytes), 2, vlqDecode(bytes)[1] + 1))

RunsOf(bytes) ==
    SubSeq(vlqDecode(bytes), vlqDecode(bytes)[1] + 2, Len(vlqDecode(bytes)))

\* C6: a decode whose run lengths do not sum to the product of the declared
\* Size fails with an error.
C6_MalformedDecodeFails ==
    (last.op = "decode" /\ SeqSum(RunsOf(last.bytes)) # DeclaredBits(last.bytes)) =>
        last.err # ""

\* C7: a fromString whose rows are not all as long as the first fails with an
\* error.
C7_UnequalRowsFail ==
    (last.op = "fromString"
        /\ \E k \in 1..Len(last.rows) : Len(last.rows[k]) # Len(last.rows[1])) =>
        last.err # ""

\* C2: the matrix decode returns for the bytes encode returned for a matrix is
\* the same as that matrix: same Size, same bit at every Indices.
C2_RoundTrip ==
    (last.op = "decode" /\ last.of # 0) => isSameAs(Store, last.r, last.of)

====
